---- MODULE Spec2Model ----
(***************************************************************************)
(* Model of the BotBuilder Python SDK                                      *)
(* (server/sdk-templates/python/botbuilder/__init__.py).                   *)
(*                                                                         *)
(* The state is one client object (BotBuilder), the process environment    *)
(* variable BOTBUILDER_API_KEY, the number of calls made to                *)
(* session.request, and, per calling thread, the facade call it is in.     *)
(* A facade call is two steps: Invoke runs the facade method and _request  *)
(* up to the blocking session.request call (line 49); Respond is the       *)
(* return of session.request (a response or a transport error) followed by *)
(* raise_for_status, json() and the return to the caller (lines 49-52).    *)
(*                                                                         *)
(* Strings that the code takes apart or puts together are sequences of     *)
(* tokens: a URL is a sequence over "/" and non-slash chunks.  Mappings    *)
(* (keyword arguments, headers, JSON objects) are sets of <<key, value>>.  *)
(* The boundary of the model is session.request: what the HTTP library    *)
(* does on the wire below that call (redirects it follows, cookies,        *)
(* connection reuse) is not modelled, and the response it hands back is    *)
(* the final one.  Of the library, the model holds only the documented     *)
(* meaning of the calls the code makes: session headers go on every        *)
(* request, raise_for_status raises for 400..599, json() decodes the body  *)
(* or raises.                                                              *)
(*                                                                         *)
(* Spec is one caller with every response; SpecConfig is one caller with   *)
(* every base URL up to MaxUrlLen tokens; SpecConcurrent is two callers.   *)
(***************************************************************************)
EXTENDS Integers, Sequences, FiniteSets, TLC

VARIABLES env_key, phase, args, ctor_error, client, sent, calls

vars == <<env_key, phase, args, ctor_error, client, sent, calls>>

\* ------------------------------------------------------------- bounds
MaxUrlLen == 2
MaxRequests == 2

\* ---------------------------------------------------------- constants
DefaultTimeout == 30

\* Python's None, and the sentinel for "no value returned".
None == "<None>"

Version == "1.0.0"

DefaultBaseUrl == <<"https:", "/", "/", "api.botbuilder.com">>

\* The caller's threads: one in the sequential specification, both in the
\* concurrent one.
Callers == {"t1", "t2"}

\* ------------------------------------------------------------- inputs
KeyArgs == {None, "", "k1"}

EnvValues == {None, "", "k2"}

UrlTokens == {"h", "/"}

RECURSIVE SeqsUpTo(_)
SeqsUpTo(n) ==
    IF n = 0 THEN {<<>>}
    ELSE LET shorter == SeqsUpTo(n - 1)
         IN  shorter \cup {Append(s, t) : s \in {x \in shorter : Len(x) = n - 1}, t \in UrlTokens}

BaseUrlArgs == SeqsUpTo(MaxUrlLen) \cup {DefaultBaseUrl}

TimeoutArgs == {DefaultTimeout, 5}

Ids == {"b1", "b2"}

Files == {"report.pdf"}

KwargSets == {{}, {<<"category", "faq">>}}

Statuses == {199, 200, 204, 299, 300, 399, 400, 404, 499, 500, 599}

Bodies == {"", "{\"id\":\"b1\",\"name\":\"x\"}", "{\"ok\":\"1\"}"}

\* ------------------------------------------------- BotBuilder.__init__
\* Python truthiness of an Optional[str].
Truthy(s) == s # None /\ s # ""

\* api_key or os.environ.get("BOTBUILDER_API_KEY")
ResolveApiKey(api_key, env) == IF Truthy(api_key) THEN api_key ELSE env

\* Faulty variant: tests "is None" instead of truthiness.
MissingKey_IsNoneOnly(key) == key = None

\* if not self.api_key
MissingKey(key) == ~Truthy(key)

\* Faulty variant: removes one trailing "/" only.
RStrip_OneSlash(s) ==
    IF Len(s) > 0 /\ s[Len(s)] = "/" THEN SubSeq(s, 1, Len(s) - 1) ELSE s

\* base_url.rstrip("/"): every trailing "/" is removed.
RECURSIVE RStrip(_)
RStrip(s) ==
    IF Len(s) > 0 /\ s[Len(s)] = "/" THEN RStrip(SubSeq(s, 1, Len(s) - 1)) ELSE s

\* Faulty variant: the key without the "Bearer " scheme.
DefaultHeaders_NoScheme(api_key) ==
    { <<"Authorization", <<api_key>>>>,
      <<"Content-Type", <<"application/json">>>>,
      <<"User-Agent", <<"BotBuilder-SDK-Python/", Version>>>> }

\* session.headers.update({...})
DefaultHeaders(api_key) ==
    { <<"Authorization", <<"Bearer ", api_key>>>>,
      <<"Content-Type", <<"application/json">>>>,
      <<"User-Agent", <<"BotBuilder-SDK-Python/", Version>>>> }

FacadeNames == {"bots", "messages", "knowledge", "analytics", "webhooks"}

NoClient ==
    [api_key |-> None, base_url |-> <<>>, timeout |-> 0, headers |-> {}, facades |-> {}]

NewClient(api_key, base_url, timeout, env) ==
    [api_key  |-> ResolveApiKey(api_key, env),
     base_url |-> RStrip(base_url),
     timeout  |-> timeout,
     headers  |-> DefaultHeaders(ResolveApiKey(api_key, env)),
     facades  |-> FacadeNames]

\* ---------------------------------------------------------- requests
NoKwargs == [passed |-> {}, params |-> {}, json |-> {}, files |-> {}, data |-> {}]

WithParams(m) == [NoKwargs EXCEPT !.passed = {"params"}, !.params = m]

WithJson(m) == [NoKwargs EXCEPT !.passed = {"json"}, !.json = m]

Call(method, endpoint, kwargs) == [method |-> method, endpoint |-> endpoint, kwargs |-> kwargs]

\* ------------------------------------------------------- BotsClient
BotsClient_list(params) == Call("GET", <<"/", "api", "/", "bots">>, WithParams(params))

\* Faulty variant: the identifier is not put into the path.
BotsClient_get_NoId(bot_id) == Call("GET", <<"/", "api", "/", "bots", "/">>, NoKwargs)

BotsClient_get(bot_id) == Call("GET", <<"/", "api", "/", "bots", "/", bot_id>>, NoKwargs)

BotsClient_create(data) == Call("POST", <<"/", "api", "/", "bots">>, WithJson(data))

\* Faulty variant: the fields go out as query parameters.
BotsClient_update_AsParams(bot_id, data) ==
    Call("PUT", <<"/", "api", "/", "bots", "/", bot_id>>, WithParams(data))

BotsClient_update(bot_id, data) ==
    Call("PUT", <<"/", "api", "/", "bots", "/", bot_id>>, WithJson(data))

BotsClient_delete(bot_id) == Call("DELETE", <<"/", "api", "/", "bots", "/", bot_id>>, NoKwargs)

\* --------------------------------------------------- MessagesClient
MessagesClient_send(data) == Call("POST", <<"/", "api", "/", "messages">>, WithJson(data))

MessagesClient_list(bot_id, params) ==
    Call("GET", <<"/", "api", "/", "bots", "/", bot_id, "/", "messages">>, WithParams(params))

MessagesClient_get(message_id) ==
    Call("GET", <<"/", "api", "/", "messages", "/", message_id>>, NoKwargs)

\* -------------------------------------------------- KnowledgeClient
KnowledgeClient_list(params) == Call("GET", <<"/", "api", "/", "knowledge">>, WithParams(params))

\* files = {"file": file}; _request(..., files=files, data=metadata)
KnowledgeClient_upload(file, metadata) ==
    Call("POST", <<"/", "api", "/", "knowledge", "/", "upload">>,
         [NoKwargs EXCEPT !.passed = {"files", "data"},
                          !.files = {<<"file", file>>},
                          !.data = metadata])

KnowledgeClient_delete(document_id) ==
    Call("DELETE", <<"/", "api", "/", "knowledge", "/", document_id>>, NoKwargs)

\* -------------------------------------------------- AnalyticsClient
AnalyticsClient_get_overview(params) ==
    Call("GET", <<"/", "api", "/", "analytics", "/", "overview">>, WithParams(params))

AnalyticsClient_get_messages(params) ==
    Call("GET", <<"/", "api", "/", "analytics", "/", "messages">>, WithParams(params))

AnalyticsClient_get_users(params) ==
    Call("GET", <<"/", "api", "/", "analytics", "/", "users">>, WithParams(params))

\* --------------------------------------------------- WebhooksClient
WebhooksClient_list == Call("GET", <<"/", "api", "/", "webhooks">>, NoKwargs)

WebhooksClient_create(data) == Call("POST", <<"/", "api", "/", "webhooks">>, WithJson(data))

WebhooksClient_update(webhook_id, data) ==
    Call("PUT", <<"/", "api", "/", "webhooks", "/", webhook_id>>, WithJson(data))

WebhooksClient_delete(webhook_id) ==
    Call("DELETE", <<"/", "api", "/", "webhooks", "/", webhook_id>>, NoKwargs)

\* The facade methods, by attribute path on the client.
IdOps == {"bots.get", "bots.delete", "messages.get", "knowledge.delete", "webhooks.delete"}

KwOps == {"bots.list", "bots.create", "messages.send", "knowledge.list",
          "analytics.get_overview", "analytics.get_messages", "analytics.get_users",
          "webhooks.create"}

IdKwOps == {"bots.update", "messages.list", "webhooks.update"}

Ops == IdOps \cup KwOps \cup IdKwOps \cup {"webhooks.list", "knowledge.upload"}

\* The call a facade method makes to _request.  id, kw and file are the
\* method's positional and keyword arguments; a method ignores those it does
\* not take.
FacadeCall(op, id, kw, file) ==
    CASE op = "bots.list"              -> BotsClient_list(kw)
      [] op = "bots.get"               -> BotsClient_get(id)
      [] op = "bots.create"            -> BotsClient_create(kw)
      [] op = "bots.update"            -> BotsClient_update(id, kw)
      [] op = "bots.delete"            -> BotsClient_delete(id)
      [] op = "messages.send"          -> MessagesClient_send(kw)
      [] op = "messages.list"          -> MessagesClient_list(id, kw)
      [] op = "messages.get"           -> MessagesClient_get(id)
      [] op = "knowledge.list"         -> KnowledgeClient_list(kw)
      [] op = "knowledge.upload"       -> KnowledgeClient_upload(file, kw)
      [] op = "knowledge.delete"       -> KnowledgeClient_delete(id)
      [] op = "analytics.get_overview" -> AnalyticsClient_get_overview(kw)
      [] op = "analytics.get_messages" -> AnalyticsClient_get_messages(kw)
      [] op = "analytics.get_users"    -> AnalyticsClient_get_users(kw)
      [] op = "webhooks.list"          -> WebhooksClient_list
      [] op = "webhooks.create"        -> WebhooksClient_create(kw)
      [] op = "webhooks.update"        -> WebhooksClient_update(id, kw)
      [] op = "webhooks.delete"        -> WebhooksClient_delete(id)

\* ------------------------------------------------ BotBuilder._request
\* url = f"{self.base_url}{endpoint}"; kwargs["timeout"] = self.timeout.
\* The record is the argument list of session.request(method, url, **kwargs).
Request(c, call) ==
    [method  |-> call.method,
     url     |-> c.base_url \o call.endpoint,
     kwargs  |-> [call.kwargs EXCEPT !.passed = @ \cup {"timeout"}],
     timeout |-> c.timeout]

\* The Content-Type the HTTP library derives from the body arguments.
BodyContentType(kwargs) ==
    IF "files" \in kwargs.passed /\ kwargs.files # {} THEN <<"multipart/form-data">>
    ELSE IF "data" \in kwargs.passed /\ kwargs.data # {} THEN <<"application/x-www-form-urlencoded">>
    ELSE IF "json" \in kwargs.passed THEN <<"application/json">>
    ELSE <<>>

HeaderNames(headers) == {h[1] : h \in headers}

\* The headers session.request sends: the session's own headers (no facade
\* passes headers=), and the body's Content-Type only when the session sets
\* none.
PreparedHeaders(session_headers, kwargs) ==
    session_headers \cup
        IF "Content-Type" \notin HeaderNames(session_headers) /\ BodyContentType(kwargs) # <<>>
        THEN {<<"Content-Type", BodyContentType(kwargs)>>}
        ELSE {}

\* What goes out for one call of session.request.
SessionRequest(c, call) ==
    [method  |-> Request(c, call).method,
     url     |-> Request(c, call).url,
     kwargs  |-> Request(c, call).kwargs,
     timeout |-> Request(c, call).timeout,
     headers |-> PreparedHeaders(c.headers, Request(c, call).kwargs)]

NoRequest ==
    [method |-> "", url |-> <<>>, kwargs |-> NoKwargs, timeout |-> 0, headers |-> {}]

\* ------------------------------------------------------------ responses
NoResponse == [kind |-> "none", status |-> 0, body |-> ""]

HttpResponse(status, body) == [kind |-> "response", status |-> status, body |-> body]

\* session.request raised: timeout, DNS failure, connection refused.
TransportFailure == [kind |-> "error", status |-> 0, body |-> ""]

\* Faulty variant: only client errors raise.
RaiseForStatus_ClientOnly(status) == 400 <= status /\ status < 500

\* response.raise_for_status(): HTTPError for a client or server error status.
RaiseForStatus(status) == 400 <= status /\ status < 600

\* Whether response.json() can decode the body.
IsJson(body) == body # ""

\* response.json() of a decodable body.
JsonDecode(body) ==
    CASE body = "{\"id\":\"b1\",\"name\":\"x\"}" -> {<<"id", "b1">>, <<"name", "x">>}
      [] body = "{\"ok\":\"1\"}"                 -> {<<"ok", "1">>}
      [] OTHER                                   -> {}

NoOutcome == [kind |-> "none", error |-> "", status |-> 0, value |-> {}]

Returned(value) == [kind |-> "return", error |-> "", status |-> 0, value |-> value]

Raised(error, status) == [kind |-> "raise", error |-> error, status |-> status, value |-> {}]

\* Lines 49-52 once session.request has returned or raised.
Outcome(resp) ==
    IF resp.kind = "error" THEN Raised("RequestException", 0)
    ELSE IF RaiseForStatus(resp.status) THEN Raised("HTTPError", resp.status)
    ELSE IF ~IsJson(resp.body) THEN Raised("JSONDecodeError", 0)
    ELSE Returned(JsonDecode(resp.body))

\* -------------------------------------------------------------- state
IdleCall ==
    [pc |-> "idle", op |-> "", id |-> "", kw |-> {}, file |-> "",
     req |-> NoRequest, resp |-> NoResponse, outcome |-> NoOutcome]

NoArgs == [api_key |-> None, base_url |-> <<>>, timeout |-> 0]

InitWith(callers) ==
    /\ env_key \in EnvValues
    /\ phase = "new"
    /\ args = NoArgs
    /\ ctor_error = None
    /\ client = NoClient
    /\ sent = 0
    /\ calls = [c \in callers |-> IdleCall]

Init == InitWith({"t1"})

\* ------------------------------------------------------------- actions
\* What __init__ leaves behind: a client, or the ValueError of line 26.
ConstructEffect(api_key, base_url, timeout) ==
    /\ phase = "new"
    /\ args' = [api_key |-> api_key, base_url |-> base_url, timeout |-> timeout]
    /\ IF MissingKey(ResolveApiKey(api_key, env_key))
       THEN /\ phase' = "failed"
            /\ ctor_error' = "ValueError"
            /\ client' = NoClient
       ELSE /\ phase' = "ready"
            /\ ctor_error' = None
            /\ client' = NewClient(api_key, base_url, timeout, env_key)
    /\ UNCHANGED <<env_key, calls>>

\* Faulty variant: a successful construction sends a request.
Construct_HealthCheck(api_key, base_url, timeout) ==
    /\ ConstructEffect(api_key, base_url, timeout)
    /\ sent' = IF phase' = "ready" THEN sent + 1 ELSE sent

\* BotBuilder(api_key, base_url, timeout)
Construct(api_key, base_url, timeout) ==
    /\ ConstructEffect(api_key, base_url, timeout)
    /\ sent' = sent

\* A facade method up to the call of session.request.
InvokeEffect(t, op, id, kw, file) ==
    /\ phase = "ready"
    /\ calls[t].pc # "waiting"
    /\ sent < MaxRequests
    /\ sent' = sent + 1
    /\ calls' = [calls EXCEPT ![t] =
                    [pc |-> "waiting", op |-> op, id |-> id, kw |-> kw, file |-> file,
                     req |-> SessionRequest(client, FacadeCall(op, id, kw, file)),
                     resp |-> NoResponse, outcome |-> NoOutcome]]
    /\ UNCHANGED <<env_key, phase, args, ctor_error>>

\* Faulty variant: upload rewrites the session's Content-Type header.
Invoke_UploadSetsSessionHeader(t, op, id, kw, file) ==
    /\ InvokeEffect(t, op, id, kw, file)
    /\ client' = IF op = "knowledge.upload"
                 THEN [client EXCEPT !.headers =
                          (@ \ {<<"Content-Type", <<"application/json">>>>})
                             \cup {<<"Content-Type", <<"multipart/form-data">>>>}]
                 ELSE client

Invoke(t, op, id, kw, file) ==
    /\ InvokeEffect(t, op, id, kw, file)
    /\ client' = client

\* session.request returns or raises; the call ends.
Respond(t, resp) ==
    /\ calls[t].pc = "waiting"
    /\ calls' = [calls EXCEPT ![t].pc = "done", ![t].resp = resp, ![t].outcome = Outcome(resp)]
    /\ UNCHANGED <<env_key, phase, args, ctor_error, client, sent>>

\* The arguments a facade method takes; those it does not take are fixed.
IdsOf(op) == IF op \in IdOps \cup IdKwOps THEN Ids ELSE {""}

KwargsOf(op) == IF op \in KwOps \cup IdKwOps \cup {"knowledge.upload"} THEN KwargSets ELSE {{}}

FilesOf(op) == IF op = "knowledge.upload" THEN Files ELSE {""}

Responses == {HttpResponse(s, b) : s \in Statuses, b \in Bodies} \cup {TransportFailure}

\* One success and one failure, for the specifications that are not about
\* the response.
FewResponses == {HttpResponse(200, "{\"ok\":\"1\"}"), TransportFailure}

NextWith(urls, responses) ==
    \/ \E k \in KeyArgs, u \in urls, to \in TimeoutArgs : Construct(k, u, to)
    \/ \E t \in DOMAIN calls, op \in Ops :
          \E id \in IdsOf(op), kw \in KwargsOf(op), f \in FilesOf(op) : Invoke(t, op, id, kw, f)
    \/ \E t \in DOMAIN calls, r \in responses : Respond(t, r)

\* One caller, the default base URL, every response.
Next == NextWith({DefaultBaseUrl}, Responses)

Spec == Init /\ [][Next]_vars

\* One caller, every base URL up to MaxUrlLen tokens.
NextConfig == NextWith(BaseUrlArgs, FewResponses)

SpecConfig == Init /\ [][NextConfig]_vars

\* Two callers whose facade calls interleave, on a client built with the
\* environment variable unset.
InitConcurrent == InitWith(Callers) /\ env_key = None

NextConcurrent == NextWith({<<"h", "/">>}, FewResponses)

SpecConcurrent == InitConcurrent /\ [][NextConcurrent]_vars

\* ---------------------------------------------------------------------
\* The claims.  The documented interface (section 6 of the specification):
\* the verb and the path of each operation, written out independently of
\* the facade definitions above.
DocVerb(op) ==
    CASE op \in {"bots.list", "bots.get", "messages.list", "messages.get", "knowledge.list",
                 "analytics.get_overview", "analytics.get_messages", "analytics.get_users",
                 "webhooks.list"} -> "GET"
      [] op \in {"bots.create", "messages.send", "knowledge.upload", "webhooks.create"} -> "POST"
      [] op \in {"bots.update", "webhooks.update"} -> "PUT"
      [] op \in {"bots.delete", "knowledge.delete", "webhooks.delete"} -> "DELETE"

Api(rest) == <<"/", "api", "/">> \o rest

DocPath(op, id) ==
    CASE op \in {"bots.list", "bots.create"}          -> Api(<<"bots">>)
      [] op \in {"bots.get", "bots.update", "bots.delete"} -> Api(<<"bots", "/", id>>)
      [] op = "messages.send"                          -> Api(<<"messages">>)
      [] op = "messages.list"                          -> Api(<<"bots", "/", id, "/", "messages">>)
      [] op = "messages.get"                           -> Api(<<"messages", "/", id>>)
      [] op = "knowledge.list"                         -> Api(<<"knowledge">>)
      [] op = "knowledge.upload"                       -> Api(<<"knowledge", "/", "upload">>)
      [] op = "knowledge.delete"                       -> Api(<<"knowledge", "/", id>>)
      [] op = "analytics.get_overview"                 -> Api(<<"analytics", "/", "overview">>)
      [] op = "analytics.get_messages"                 -> Api(<<"analytics", "/", "messages">>)
      [] op = "analytics.get_users"                    -> Api(<<"analytics", "/", "users">>)
      [] op \in {"webhooks.list", "webhooks.create"}   -> Api(<<"webhooks">>)
      [] op \in {"webhooks.update", "webhooks.delete"} -> Api(<<"webhooks", "/", id>>)

\* The calls that have issued their request.
Issued == {t \in DOMAIN calls : calls[t].pc \in {"waiting", "done"}}

Finished == {t \in DOMAIN calls : calls[t].pc = "done"}

Is2xx(status) == 200 <= status /\ status <= 299

\* C1: constructing the client with no API key argument (absent or empty)
\* while BOTBUILDER_API_KEY is unset or empty fails with the configuration
\* error, whatever base_url and timeout are; no client with an empty key
\* exists.
C1_MissingKeyFails ==
    /\ (phase # "new" /\ args.api_key \in {None, ""} /\ env_key \in {None, ""})
          => (phase = "failed" /\ ctor_error = "ValueError" /\ client = NoClient)
    /\ phase = "ready" => client.api_key \notin {None, ""}

C1_Witness ==
    /\ phase = "failed"
    /\ args.api_key = ""
    /\ env_key = ""
    /\ args.base_url = <<"h", "/">>
    /\ args.timeout = 5

C3_DefaultHeadersOnEveryRequest ==
    \A t \in Issued :
        LET h == calls[t].req.headers
            key == IF args.api_key \in {None, ""} THEN env_key ELSE args.api_key
        IN  /\ <<"Authorization", <<"Bearer ", key>>>> \in h
            /\ <<"Content-Type", <<"application/json">>>> \in h
            /\ <<"User-Agent", <<"BotBuilder-SDK-Python/", "1.0.0">>>> \in h
            /\ Cardinality(h) = 3

C3_Witness ==
    /\ sent = 2
    /\ calls["t1"].pc = "waiting"
    /\ calls["t1"].op = "knowledge.upload"
    /\ args.api_key = None
    /\ <<"Authorization", <<"Bearer ", "k2">>>> \in calls["t1"].req.headers

C5_SuccessReturnsBody ==
    \A t \in Finished :
        (calls[t].resp.kind = "response" /\ Is2xx(calls[t].resp.status))
            => /\ calls[t].outcome.kind = "return"
               /\ calls[t].resp.body = "{\"id\":\"b1\",\"name\":\"x\"}"
                     => calls[t].outcome.value = {<<"id", "b1">>, <<"name", "x">>}
               /\ calls[t].resp.body = "{\"ok\":\"1\"}"
                     => calls[t].outcome.value = {<<"ok", "1">>}

\* C6: Knowledge.upload(file, **metadata) sends one POST to
\* /api/knowledge/upload with the file under the part name "file" and one
\* form field per metadata argument, labelled as multipart and not as JSON.
C6_UploadIsMultipart ==
    \A t \in Issued :
        calls[t].op = "knowledge.upload" =>
            /\ calls[t].req.method = "POST"
            /\ calls[t].req.url = client.base_url \o Api(<<"knowledge", "/", "upload">>)
            /\ calls[t].req.kwargs.files = {<<"file", calls[t].file>>}
            /\ calls[t].req.kwargs.data = calls[t].kw
            /\ "json" \notin calls[t].req.kwargs.passed
            /\ \A h \in calls[t].req.headers :
                  h[1] = "Content-Type" => h[2] = <<"multipart/form-data">>

\* C7: constructing the client issues no request: none has been sent when
\* __init__ has returned or raised, and the first one is sent by the first
\* facade call.
C7_ConstructionSendsNothing ==
    /\ phase # "ready" => sent = 0
    /\ (\A t \in DOMAIN calls : calls[t].pc = "idle") => sent = 0
    /\ sent = 0 => \A t \in DOMAIN calls : calls[t].pc = "idle"

C7_Witness ==
    /\ phase = "ready"
    /\ sent = 0
    /\ client.api_key = "k1"
    /\ client.facades = {"bots", "messages", "knowledge", "analytics", "webhooks"}

\* C8: keyword arguments go where the verb's convention puts them and
\* nowhere else: filters of the GET operations as query parameters only,
\* fields of the POST and PUT operations as the JSON body only; get, delete
\* and Webhooks.list send neither; the identifier is only in the path.
FilterOps ==
    {"bots.list", "messages.list", "knowledge.list",
     "analytics.get_overview", "analytics.get_messages", "analytics.get_users"}

FieldOps == {"bots.create", "bots.update", "messages.send", "webhooks.create", "webhooks.update"}

BareOps ==
    {"bots.get", "bots.delete", "messages.get", "knowledge.delete",
     "webhooks.list", "webhooks.delete"}

C8_ArgumentPlacement ==
    \A t \in Issued :
        LET k == calls[t].req.kwargs
            everywhere == k.params \cup k.json \cup k.data \cup k.files
        IN  /\ calls[t].op \in FilterOps
                  => /\ k.passed = {"params", "timeout"}
                     /\ k.params = calls[t].kw
                     /\ k.json = {} /\ k.data = {} /\ k.files = {}
            /\ calls[t].op \in FieldOps
                  => /\ k.passed = {"json", "timeout"}
                     /\ k.json = calls[t].kw
                     /\ k.params = {} /\ k.data = {} /\ k.files = {}
            /\ calls[t].op \in BareOps
                  => /\ k.passed = {"timeout"}
                     /\ everywhere = {}
            /\ calls[t].id # "" => \A pair \in everywhere : calls[t].id \notin {pair[1], pair[2]}

C8_Witness ==
    /\ calls["t1"].pc = "waiting"
    /\ calls["t1"].op = "bots.update"
    /\ calls["t1"].id = "b2"
    /\ calls["t1"].req.kwargs.json = {<<"category", "faq">>}
    /\ calls["t1"].req.kwargs.params = {}

\* C9: the stored base URL is the argument without its trailing slashes, so
\* it never ends with "/"; every request's URL is the stored base URL
\* followed by the endpoint path; base and path are separated by exactly one
\* "/".
Slashes(n) == [i \in 1..n |-> "/"]

C9_BaseUrlJoin ==
    phase = "ready" =>
        LET b == client.base_url
        IN  /\ Len(b) > 0 => b[Len(b)] # "/"
            /\ \E n \in 0..Len(args.base_url) : args.base_url = b \o Slashes(n)
            /\ \A t \in Issued :
                  LET u == calls[t].req.url
                  IN  /\ u = b \o DocPath(calls[t].op, calls[t].id)
                      /\ u[Len(b) + 1] = "/"
                      /\ u[Len(b) + 2] # "/"

C9_Witness ==
    /\ args.base_url = <<"h", "/">>
    /\ calls["t1"].pc = "waiting"
    /\ calls["t1"].op = "bots.list"
    /\ calls["t1"].req.url = <<"h", "/", "api", "/", "bots">>

====
